---- MODULE Spec2Model ----
(***************************************************************************)
(* Model of the tunnel-property engine (openvpn/tun/client/tunprop.hpp)    *)
(* and of the IPv4 address type (openvpn/addr/ipv4.hpp).                   *)
(*                                                                         *)
(* Two state machines share the module:                                    *)
(*   SpecAddr  an IPv4::Addr object: its constructors and prefix_len()     *)
(*   Spec      one pass of TunProp::configure_builder against a recording  *)
(*             builder whose calls may succeed or fail                     *)
(***************************************************************************)
EXTENDS Integers, Sequences, FiniteSets, TLC

VARIABLES
    \* ---- IPv4::Addr object (SpecAddr)
    u_addr,        \* u.addr: 32-bit value, kept as its four octets, most significant first
    built_from,    \* prefix length the object was built from (0: built from raw bytes)
    addr_res,      \* "unbuilt", "none" (built), or the outcome of prefix_len()
    \* ---- one configure_builder pass (Spec)
    pc,            \* position in configure_builder
    server_addr,   \* parameter server_addr
    eer,           \* the EmulateExcludeRoute object: [present, routes]
    top,           \* local `top` of tun_ifconfig
    o,             \* the directive the code currently holds (local `o`)
    ip_ver_flags,  \* local ip_ver_flags of tun_ifconfig (set of 4, 6)
    ipv,           \* the IPVerFlags object
    dopt,          \* the directive (or address) list a loop iterates over
    i,             \* the loop's position in dopt
    flags,         \* local `flags` of add_dhcp_options
    px,            \* locals auto_config_url, http_host, http_port, https_host, https_port
    state,         \* the caller's TunProp::State
    log,           \* calls received by the TunBuilderBase, in order
    stats,         \* events received by the SessionStats
    error,         \* exception that left configure_builder, or "none"
    left,          \* optional inputs the pass may still be given (failures aside)
    nfail,         \* builder calls that returned failure so far
    quiet,         \* parameter quiet: "unread" until the pass first tests it
    oplog          \* lines written with OPENVPN_LOG, in order

addr_vars == <<u_addr, built_from, addr_res>>
pass_vars == <<pc, server_addr, eer, top, o, ip_ver_flags, ipv, dopt, i, flags, px,
               state, log, stats, error, left, nfail, quiet, oplog>>
vars == <<u_addr, built_from, addr_res, pc, server_addr, eer, top, o, ip_ver_flags,
          ipv, dopt, i, flags, px, state, log, stats, error, left, nfail, quiet, oplog>>

----------------------------------------------------------------------------
(* Bounds of the model *)

\* octet values 1..MaxNoise are tried in every octet besides the netmask octets
MaxNoise == 3
\* number of optional events of one pass besides the ifconfig directives:
\* route, route-ipv6, dhcp-option, redirect-gateway and block-ipv6 directives,
\* cached remote addresses, a configured MTU, a configured session name, and
\* calls the builder answers with failure
MaxOpts == 2

----------------------------------------------------------------------------
(* 32-bit arithmetic on octet tuples (u.addr is a boost::uint32_t) *)

Pow2(n) == IF n = 0 THEN 1 ELSE IF n = 1 THEN 2 ELSE IF n = 2 THEN 4
           ELSE IF n = 3 THEN 8 ELSE IF n = 4 THEN 16 ELSE IF n = 5 THEN 32
           ELSE IF n = 6 THEN 64 ELSE IF n = 7 THEN 128 ELSE 256

RECURSIVE BitAnd8(_, _)
BitAnd8(x, y) == IF x = 0 \/ y = 0 THEN 0
                 ELSE (x % 2) * (y % 2) + 2 * BitAnd8(x \div 2, y \div 2)

\* operator& : octet-wise AND
WordAnd(a, b) == [j \in DOMAIN a |-> BitAnd8(a[j], b[j])]

\* ~x
WordNot(a) == [j \in DOMAIN a |-> 255 - a[j]]

\* 1 << k, 0 <= k <= 31
WordShl1(k) == [j \in 1..4 |-> IF j = 4 - (k \div 8) THEN Pow2(k % 8) ELSE 0]

\* x - 1 in 32 bits (two's complement wrap-around: 0 - 1 is all ones, and
\* 0x80000000 - 1 is 0x7fffffff, the value every two's complement build yields
\* for (1 << 31) - 1)
WordDec(a) ==
    IF \A j \in 1..4 : a[j] = 0 THEN [j \in 1..4 |-> 255]
    ELSE LET last == CHOOSE j \in 1..4 : a[j] # 0 /\ \A k \in (j+1)..4 : a[k] = 0
         IN  [j \in 1..4 |-> IF j < last THEN a[j]
                             ELSE IF j = last THEN a[j] - 1 ELSE 255]

\* unsigned comparison a > b
WordGt(a, b) ==
    \E j \in 1..4 : a[j] > b[j] /\ \A k \in 1..(j-1) : a[k] = b[k]

AllOnes == <<255, 255, 255, 255>>
Zero32 == <<0, 0, 0, 0>>

----------------------------------------------------------------------------
(* IPv4::Addr *)

\* number of iterations of the binary search in prefix_len()
SearchIters == 5
\* width of an IPv4 address in bits
V4Size == 32

prefix_len_to_netmask_unchecked(p) == WordNot(WordDec(WordShl1(V4Size - p)))

\* results of operations that may throw: a value, or the exception's name
Value(v) == [what |-> "value", v |-> v]
Throw(e) == [what |-> e]

prefix_len_to_netmask(p) ==
    IF p >= 1 /\ p <= V4Size THEN Value(prefix_len_to_netmask_unchecked(p))
    ELSE Throw("ipv4_bad_prefix_len")

netmask_from_prefix_len(p) == prefix_len_to_netmask(p)

RECURSIVE prefix_len_search(_, _, _, _, _)
prefix_len_search(u, high, low, n, iters) ==
    IF n >= iters THEN Throw("ipv4_malformed_netmask")
    ELSE LET mid == (high + low) \div 2
             test == prefix_len_to_netmask_unchecked(mid)
         IN  IF u = test THEN Value(mid)
             ELSE IF WordGt(u, test)
                  THEN prefix_len_search(u, high, mid, n + 1, iters)
                  ELSE prefix_len_search(u, mid, low, n + 1, iters)

\* a plausible slip: one iteration too few
prefix_len_short(u) ==
    IF u # AllOnes THEN prefix_len_search(u, V4Size, 1, 0, SearchIters - 1)
    ELSE Value(V4Size)

prefix_len(u) ==
    IF u # AllOnes THEN prefix_len_search(u, V4Size, 1, 0, SearchIters)
    ELSE Value(V4Size)

----------------------------------------------------------------------------
(* The IPv4::Addr state machine *)

NetmaskOctets == {0, 128, 192, 224, 240, 248, 252, 254, 255}
TestOctets == NetmaskOctets \cup (1..MaxNoise)
TestWords == {<<a, b, c, d>> : a \in TestOctets, b \in TestOctets,
                               c \in TestOctets, d \in TestOctets}

\* an IP::Addr: its version (4, 6, or 0 when unspecified) and its octets
Addr(ver, w) == [ver |-> ver, w |-> w]
NoAddr == Addr(0, <<>>)

NoDirective == [name |-> "none"]
NoIpv == [v4 |-> FALSE, v6 |-> FALSE, rgv4 |-> FALSE, rgv6 |-> FALSE]
NoProxy == [auto_config_url |-> "", http_host |-> "", http_port |-> 0,
            https_host |-> "", https_port |-> 0]
NoError == [type |-> "none", what |-> ""]

\* the values the pass's variables hold before configure_builder is entered
PassEntry(srv, emu, n, q) ==
    /\ server_addr = srv
    /\ eer = [present |-> emu, routes |-> <<>>]
    /\ top = "none" /\ o = NoDirective /\ ip_ver_flags = {} /\ ipv = NoIpv
    /\ dopt = <<>> /\ i = 0 /\ flags = {} /\ px = NoProxy
    /\ state = [vpn_ip4_addr |-> NoAddr, vpn_ip6_addr |-> NoAddr]
    /\ log = <<>> /\ stats = <<>> /\ error = NoError /\ left = n /\ nfail = 0
    /\ quiet = q /\ oplog = <<>>

PassIdle == pc = "idle" /\ PassEntry(NoAddr, FALSE, 0, "unread")

InitAddr ==
    /\ u_addr = Zero32          \* from_zero()
    /\ built_from = 0
    /\ addr_res = Throw("unbuilt")
    /\ PassIdle

\* Addr::netmask_from_prefix_len(p)
NetmaskFromPrefixLen ==
    /\ addr_res.what = "unbuilt"
    /\ \E p \in 0..(V4Size + 1) :
        LET m == netmask_from_prefix_len(p)
        IN  /\ IF m.what # "value"
               THEN /\ addr_res' = m
                    /\ UNCHANGED <<u_addr, built_from>>
               ELSE /\ u_addr' = m.v
                    /\ built_from' = p
                    /\ addr_res' = Throw("none")
            /\ UNCHANGED pass_vars

\* Addr::from_bytes(bytes)
FromBytes ==
    /\ addr_res.what = "unbuilt"
    /\ \E w \in TestWords :
        /\ u_addr' = w
        /\ built_from' = 0
        /\ addr_res' = Throw("none")
        /\ UNCHANGED pass_vars

\* addr.prefix_len()
PrefixLen ==
    /\ addr_res.what = "none"
    /\ addr_res' = prefix_len(u_addr)
    /\ UNCHANGED <<u_addr, built_from>>
    /\ UNCHANGED pass_vars

NextAddr == NetmaskFromPrefixLen \/ FromBytes \/ PrefixLen

SpecAddr == InitAddr /\ [][NextAddr]_vars

\* the 32 netmasks netmask_from_prefix_len builds
NetmaskTable == [p \in 1..V4Size |-> netmask_from_prefix_len(p).v]
IsNetmask(u) == \E p \in 1..V4Size : u = NetmaskTable[p]

\* C1: prefix_len() inverts netmask_from_prefix_len on 1..32, and throws
\* ipv4_malformed_netmask on every value that is not such a netmask.
C1_PrefixLenInverse ==
    addr_res.what \notin {"unbuilt", "none", "ipv4_bad_prefix_len"} =>
        /\ built_from # 0 => addr_res = Value(built_from)
        /\ \A p \in 1..V4Size :
              u_addr = NetmaskTable[p] => addr_res = Value(p)
        /\ ~IsNetmask(u_addr) => addr_res = Throw("ipv4_malformed_netmask")

\* the search needs its fifth iteration to find length 1
C1_Witness == built_from = 1 /\ addr_res = Value(1)

----------------------------------------------------------------------------
(* IP::Addr, IP::AddrMaskPair and the directive tokens *)

V4(a, b, c, d) == Addr(4, <<a, b, c, d>>)
\* an IPv6 address with first octet hi and last octet lo, zero between
V6(hi, lo) == Addr(6, [j \in 1..16 |-> IF j = 1 THEN hi ELSE IF j = 16 THEN lo ELSE 0])

\* width of an IPv6 address in bits
V6Size == 128

\* IP::Addr::version_size
version_size(ver) == IF ver = 4 THEN V4Size ELSE V6Size

\* the IPv6 netmask of length p: p one bits, then zero bits
NetmaskV6(p) ==
    [j \in 1..16 |-> IF j <= p \div 8 THEN 255
                     ELSE IF j = (p \div 8) + 1 THEN 256 - Pow2(8 - (p % 8))
                     ELSE 0]
NetmaskV6Table == [p \in 1..V6Size |-> NetmaskV6(p)]

\* IPv6::Addr::prefix_len
prefix_len_v6(w) ==
    IF \E p \in 1..V6Size : w = NetmaskV6Table[p]
    THEN Value(CHOOSE p \in 1..V6Size : w = NetmaskV6Table[p])
    ELSE Throw("ipv6_malformed_netmask")

\* IP::Addr::prefix_len
addr_prefix_len(a) == IF a.ver = 4 THEN prefix_len(a.w) ELSE prefix_len_v6(a.w)

\* IP::Addr::to_string: the address's textual groups (empty for the empty string)
to_string(a) == a.w
EmptyString == <<>>

\* a token of a directive: a text that parses as an address, a text that does
\* not, or no token at that position
TokAddr(a) == [k |-> "addr", a |-> a]
TokAbsent == [k |-> "absent", a |-> NoAddr]
TokBad == [k |-> "bad", a |-> NoAddr]

\* IP::Addr::from_string(o.get(n, 256))
ParseAddr(tok) ==
    IF tok.k = "addr" THEN Value(tok.a)
    ELSE IF tok.k = "absent" THEN Throw("option_error")
    ELSE Throw("ip_exception")

\* IP::AddrMaskPair::from_string(addr token, optional netmask or /prefix)
AddrMaskPair_from_string(t1, t2) ==
    IF t1.k # "addr" THEN Throw("addr_pair_mask_parse_error")
    ELSE IF t2.k = "absent"
         THEN Value([addr |-> t1.a,
                     netmask |-> Addr(t1.a.ver, [j \in DOMAIN t1.a.w |-> 255])])
    ELSE IF t2.k = "addr" /\ t2.a.ver = t1.a.ver
         THEN Value([addr |-> t1.a, netmask |-> t2.a])
    ELSE Throw("addr_pair_mask_parse_error")

\* IP::AddrMaskPair::is_canonical
is_canonical(pair) == WordAnd(pair.addr.w, pair.netmask.w) = pair.addr.w

----------------------------------------------------------------------------
(* The recording builder, and what a step of the pass returns *)

Call(fn, args, ret, at) == [fn |-> fn, args |-> args, ret |-> ret, at |-> at]

Err(type, what) == [type |-> type, what |-> what]

\* outcome of an address-assignment step: the exception it throws (or none),
\* the builder calls it made, and the address it wrote into the State (if any)
Out(err, calls, wrote, addr) ==
    [err |-> err, calls |-> calls, wrote |-> wrote, addr |-> addr]

----------------------------------------------------------------------------
(* tun_ifconfig *)

\* route_gateway(opt)
route_gateway(g) ==
    IF g.k = "absent" THEN Value(EmptyString)
    ELSE IF g.k = "bad" THEN Throw("ip_exception")
    ELSE IF g.a.ver # 4 THEN Throw("tun_prop_error")
    ELSE Value(to_string(g.a))

Net30Mask == V4(255, 255, 255, 252)

\* a plausible slip: the same-/30 test left out
tun_ifconfig_net30_nocheck(d, ret) ==
    LET remote == ParseAddr(d.a2)
        local == ParseAddr(d.a1)
        netmask == Net30Mask
    IN  IF remote.what # "value"
        THEN {Out(Err(remote.what, "ifconfig"), <<>>, FALSE, NoAddr)}
        ELSE IF local.what # "value"
        THEN {Out(Err(local.what, "ifconfig"), <<>>, FALSE, NoAddr)}
        ELSE IF local.v.ver # 4 \/ remote.v.ver # 4
        THEN {Out(Err("tun_prop_error", "ifconfig address is not IPv4 (topology net30)"),
                  <<>>, FALSE, NoAddr)}
        ELSE LET call == Call("tun_builder_add_address",
                              <<to_string(local.v), addr_prefix_len(netmask).v,
                                to_string(remote.v), FALSE, TRUE>>,
                              ret, "tun_ifconfig")
             IN  IF ~ret
                 THEN {Out(Err("tun_prop_error",
                               "tun_builder_add_address IPv4 failed (topology net30)"),
                           <<call>>, FALSE, NoAddr)}
                 ELSE {Out(NoError, <<call>>, TRUE, local.v)}

\* tun_ifconfig, top == NET30 (the set of its possible outcomes)
tun_ifconfig_net30(d, ret) ==
    LET remote == ParseAddr(d.a2)
        local == ParseAddr(d.a1)
        netmask == Net30Mask
    IN  IF remote.what # "value"
        THEN {Out(Err(remote.what, "ifconfig"), <<>>, FALSE, NoAddr)}
        ELSE IF local.what # "value"
        THEN {Out(Err(local.what, "ifconfig"), <<>>, FALSE, NoAddr)}
        ELSE IF local.v.ver # 4 \/ remote.v.ver # 4
        THEN {Out(Err("tun_prop_error", "ifconfig address is not IPv4 (topology net30)"),
                  <<>>, FALSE, NoAddr)}
        ELSE IF WordAnd(local.v.w, netmask.w) # WordAnd(remote.v.w, netmask.w)
        THEN {Out(Err("tun_prop_error",
                      "ifconfig addresses are not in the same /30 subnet (topology net30)"),
                  <<>>, FALSE, NoAddr)}
        ELSE LET call == Call("tun_builder_add_address",
                              <<to_string(local.v), addr_prefix_len(netmask).v,
                                to_string(remote.v), FALSE, TRUE>>,
                              ret, "tun_ifconfig")
             IN  IF ~ret
                 THEN {Out(Err("tun_prop_error",
                               "tun_builder_add_address IPv4 failed (topology net30)"),
                           <<call>>, FALSE, NoAddr)}
                 ELSE {Out(NoError, <<call>>, TRUE, local.v)}

\* tun_ifconfig, top == SUBNET.  The arguments of tun_builder_add_address are
\* evaluated in an unspecified order: when both prefix_len() and
\* route_gateway() throw, either exception may be the one that propagates.
tun_ifconfig_subnet(d, g, ret) ==
    LET pair == AddrMaskPair_from_string(d.a1, d.a2)
    IN  IF pair.what # "value"
        THEN {Out(Err(pair.what, "ifconfig"), <<>>, FALSE, NoAddr)}
        ELSE IF pair.v.addr.ver # 4
        THEN {Out(Err("tun_prop_error", "ifconfig address is not IPv4 (topology subnet)"),
                  <<>>, FALSE, NoAddr)}
        ELSE LET pl == addr_prefix_len(pair.v.netmask)
                 gw == route_gateway(g)
             IN  IF pl.what # "value" \/ gw.what # "value"
                 THEN {Out(Err(x.what, "ifconfig"), <<>>, FALSE, NoAddr) :
                          x \in {y \in {pl, gw} : y.what # "value"}}
                 ELSE LET call == Call("tun_builder_add_address",
                                       <<to_string(pair.v.addr), pl.v, gw.v, FALSE, FALSE>>,
                                       ret, "tun_ifconfig")
                      IN  IF ~ret
                          THEN {Out(Err("tun_prop_error",
                                        "tun_builder_add_address IPv4 failed (topology subnet)"),
                                    <<call>>, FALSE, NoAddr)}
                          ELSE {Out(NoError, <<call>>, TRUE, pair.v.addr)}

\* a plausible slip: state->vpn_ip6_addr is assigned before the builder is asked
tun_ifconfig_ipv6_early(d, ret) ==
    LET pair == AddrMaskPair_from_string(d.a1, d.a2)
    IN  IF pair.what # "value"
        THEN {Out(Err(pair.what, "ifconfig-ipv6"), <<>>, FALSE, NoAddr)}
        ELSE IF pair.v.addr.ver # 6
        THEN {Out(Err("tun_prop_error", "ifconfig-ipv6 address is not IPv6"),
                  <<>>, FALSE, NoAddr)}
        ELSE LET gw == IF d.gw.k = "absent" THEN Value(NoAddr) ELSE ParseAddr(d.gw)
             IN  IF gw.what # "value"
                 THEN {Out(Err(gw.what, "ifconfig-ipv6"), <<>>, FALSE, NoAddr)}
                 ELSE IF d.gw.k # "absent" /\ gw.v.ver # 6
                 THEN {Out(Err("tun_prop_error", "ifconfig-ipv6 gateway is not IPv6"),
                           <<>>, FALSE, NoAddr)}
                 ELSE LET pl == addr_prefix_len(pair.v.netmask)
                      IN  IF pl.what # "value"
                          THEN {Out(Err(pl.what, "ifconfig-ipv6"), <<>>, FALSE, NoAddr)}
                          ELSE LET call == Call("tun_builder_add_address",
                                                <<to_string(pair.v.addr), pl.v,
                                                  to_string(gw.v), TRUE, FALSE>>,
                                                ret, "tun_ifconfig")
                               IN  IF ~ret
                                   THEN {Out(Err("tun_prop_error",
                                                 "tun_builder_add_address IPv6 failed"),
                                             <<call>>, TRUE, pair.v.addr)}
                                   ELSE {Out(NoError, <<call>>, TRUE, pair.v.addr)}

\* tun_ifconfig, the ifconfig-ipv6 directive
tun_ifconfig_ipv6(d, ret) ==
    LET pair == AddrMaskPair_from_string(d.a1, d.a2)
    IN  IF pair.what # "value"
        THEN {Out(Err(pair.what, "ifconfig-ipv6"), <<>>, FALSE, NoAddr)}
        ELSE IF pair.v.addr.ver # 6
        THEN {Out(Err("tun_prop_error", "ifconfig-ipv6 address is not IPv6"),
                  <<>>, FALSE, NoAddr)}
        ELSE LET gw == IF d.gw.k = "absent" THEN Value(NoAddr) ELSE ParseAddr(d.gw)
             IN  IF gw.what # "value"
                 THEN {Out(Err(gw.what, "ifconfig-ipv6"), <<>>, FALSE, NoAddr)}
                 ELSE IF d.gw.k # "absent" /\ gw.v.ver # 6
                 THEN {Out(Err("tun_prop_error", "ifconfig-ipv6 gateway is not IPv6"),
                           <<>>, FALSE, NoAddr)}
                 ELSE LET pl == addr_prefix_len(pair.v.netmask)
                      IN  IF pl.what # "value"
                          THEN {Out(Err(pl.what, "ifconfig-ipv6"), <<>>, FALSE, NoAddr)}
                          ELSE LET call == Call("tun_builder_add_address",
                                                <<to_string(pair.v.addr), pl.v,
                                                  to_string(gw.v), TRUE, FALSE>>,
                                                ret, "tun_ifconfig")
                               IN  IF ~ret
                                   THEN {Out(Err("tun_prop_error",
                                                 "tun_builder_add_address IPv6 failed"),
                                             <<call>>, FALSE, NoAddr)}
                                   ELSE {Out(NoError, <<call>>, TRUE, pair.v.addr)}

----------------------------------------------------------------------------
(* Inputs of a pass *)

L1 == V4(10, 8, 0, 1)
L6 == V6(253, 1)
GW4 == V4(10, 8, 0, 254)
GW6 == V6(253, 254)
S1 == V4(192, 0, 2, 1)
S2 == V4(192, 0, 2, 2)
S6 == V6(32, 1)

ServerAddrs == {S1}

TopologyOpts == {"absent", "subnet", "net30", "p2p"}

IfconfigOpts ==
    {NoDirective} \cup
    {[name |-> "ifconfig", a1 |-> t1, a2 |-> t2] :
        t1 \in {TokAddr(L1), TokAddr(L6), TokBad},
        t2 \in {TokAddr(V4(10, 8, 0, 2)), TokAddr(V4(10, 8, 0, 6)), TokAddr(V4(10, 8, 1, 2)),
                TokAddr(V4(255, 255, 255, 0)), TokAddr(V4(255, 0, 255, 0)), TokAbsent}}

RouteGatewayOpts == {TokAddr(GW4), TokAddr(GW6)}

Ifconfig6Opts ==
    {NoDirective} \cup
    {[name |-> "ifconfig-ipv6", a1 |-> t1, a2 |-> TokAddr(Addr(6, NetmaskV6(64))), gw |-> g] :
        t1 \in {TokAddr(L6), TokAddr(L1)},
        g \in {TokAbsent, TokAddr(GW4)}}

----------------------------------------------------------------------------
(* One pass of configure_builder *)

\* configure_builder is entered with quiet = q ("unread": either value, told
\* apart where the pass first tests it)
Entry(q) ==
    /\ u_addr = Zero32 /\ built_from = 0 /\ addr_res = Throw("unbuilt")
    /\ pc = "tun_ifconfig"
    /\ \E srv \in ServerAddrs, emu \in BOOLEAN : PassEntry(srv, emu, MaxOpts, q)

\* the pass that logs every line it has
Init == Entry("no")

\* the pass under either value of quiet
InitQuiet == Entry("unread")

\* the builder receives calls
NFailed(calls) == Cardinality({k \in DOMAIN calls : ~calls[k].ret})
Record(calls) == log' = log \o calls /\ nfail' = nfail + NFailed(calls)
\* optional events the pass may still meet
Avail == left - nfail
\* the answers the builder may still give
Rets == IF Avail > 0 THEN BOOLEAN ELSE {TRUE}

\* the statements of configure_builder in the order they are written
Stages == <<"tun_ifconfig", "ip_ver_flags", "remote_bypass", "add_routes_v4",
            "add_routes_v6", "emulate", "reroute_gw", "add_dhcp_options",
            "set_block_ipv6", "dns_fallback", "set_remote_address", "set_mtu",
            "set_session_name", "done">>

\* a plausible slip: the session name is set before the MTU
After_swapped(p) ==
    IF p = "set_remote_address" THEN "set_session_name"
    ELSE IF p = "set_session_name" THEN "set_mtu"
    ELSE IF p = "set_mtu" THEN "done"
    ELSE Stages[(CHOOSE k \in DOMAIN Stages : Stages[k] = p) + 1]

\* the statement that follows statement p
After(p) == Stages[(CHOOSE k \in DOMAIN Stages : Stages[k] = p) + 1]

\* an exception leaves configure_builder
Raise(err) == pc' = "failed" /\ error' = err

\* the values parameter quiet may have, given what the pass has seen of it
Quiets == IF quiet = "unread" THEN BOOLEAN ELSE {quiet = "yes"}

\* a step that tests quiet (when tested) finds it to be q, and logs lines
Logged(tested, q, lines) ==
    /\ quiet' = IF tested THEN (IF q THEN "yes" ELSE "no") ELSE quiet
    /\ oplog' = oplog \o lines

\* if (!quiet) OPENVPN_LOG(msg)
log_unless_quiet(q, msg) == IF q THEN <<>> ELSE <<msg>>

\* a catch (const std::exception& e) handler of add_routes (lines 345-349,
\* 373-377), add_remote_bypass_routes (lines 400-404) or add_dhcp_options
\* (lines 502-506, 525-529), entered with exception throws ("": not entered):
\* the lines it logs and the exception that leaves it
handler(throws, msg, q) ==
    [lines |-> IF throws # "" THEN log_unless_quiet(q, msg) ELSE <<>>,
     throws |-> ""]

\* what a loop does after its handler
Handled(h) ==
    IF h.throws = "" THEN UNCHANGED <<pc, error>> ELSE Raise(Err(h.throws, ""))

\* tun_ifconfig: the topology and ifconfig directives (lines 185-245)
TunIfconfigV4 ==
    /\ pc = "tun_ifconfig"
    /\ \E t \in TopologyOpts :
        IF t \notin {"absent", "subnet", "net30"}
        THEN /\ Raise(Err("option_error", "only topology 'subnet' and 'net30' supported"))
             /\ UNCHANGED <<top, o, ip_ver_flags, state, log, nfail>>
        ELSE \E d \in IfconfigOpts, g \in RouteGatewayOpts, ret \in Rets :
             LET tp == IF t = "subnet" THEN "SUBNET" ELSE "NET30"
             IN  /\ top' = tp
                 /\ o' = d
                 /\ IF d.name = "none"
                    THEN /\ pc' = "tun_ifconfig_ipv6"
                         /\ UNCHANGED <<ip_ver_flags, state, log, nfail, error>>
                    ELSE \E r \in IF tp = "SUBNET" THEN tun_ifconfig_subnet(d, g, ret)
                                  ELSE tun_ifconfig_net30(d, ret) :
                         /\ Record(r.calls)
                         /\ IF r.err.type = "none"
                            THEN /\ state' = [state EXCEPT !.vpn_ip4_addr = r.addr]
                                 /\ ip_ver_flags' = ip_ver_flags \cup {4}
                                 /\ pc' = "tun_ifconfig_ipv6"
                                 /\ UNCHANGED error
                            ELSE /\ Raise(r.err)
                                 /\ state' = IF r.wrote
                                             THEN [state EXCEPT !.vpn_ip4_addr = r.addr]
                                             ELSE state
                                 /\ UNCHANGED ip_ver_flags
    /\ UNCHANGED <<server_addr, eer, ipv, dopt, i, flags, px, stats, left>>
    /\ UNCHANGED <<addr_vars, quiet, oplog>>

\* tun_ifconfig: the ifconfig-ipv6 directive and the final test (lines 247-275)
TunIfconfigV6 ==
    /\ pc = "tun_ifconfig_ipv6"
    /\ \E d \in Ifconfig6Opts, ret \in Rets :
        /\ o' = d
        /\ top' = top
        /\ IF d.name = "none"
           THEN /\ IF ip_ver_flags = {}
                   THEN Raise(Err("tun_prop_error",
                                  "one of ifconfig or ifconfig-ipv6 must be specified"))
                   ELSE pc' = After("tun_ifconfig") /\ UNCHANGED error
                /\ UNCHANGED <<ip_ver_flags, state, log, nfail>>
           ELSE \E r \in tun_ifconfig_ipv6(d, ret) :
                /\ Record(r.calls)
                /\ IF r.err.type = "none"
                   THEN /\ state' = [state EXCEPT !.vpn_ip6_addr = r.addr]
                        /\ ip_ver_flags' = ip_ver_flags \cup {6}
                        /\ pc' = After("tun_ifconfig")
                        /\ UNCHANGED error
                   ELSE /\ Raise(r.err)
                        /\ state' = IF r.wrote
                                    THEN [state EXCEPT !.vpn_ip6_addr = r.addr]
                                    ELSE state
                        /\ UNCHANGED ip_ver_flags
    /\ UNCHANGED <<server_addr, eer, ipv, dopt, i, flags, px, stats, left>>
    /\ UNCHANGED <<addr_vars, quiet, oplog>>

\* what an optional input takes from the number the pass may be given
Given(present) == IF present THEN 1 ELSE 0

\* IPVerFlags ipv(opt, ip_ver_flags) (line 106); tun_ifconfig's locals are gone
MakeIPVerFlags ==
    /\ pc = "ip_ver_flags"
    /\ \E rg4 \in BOOLEAN, rg6 \in BOOLEAN :
        /\ Given(rg4) + Given(rg6) <= Avail
        /\ left' = left - (Given(rg4) + Given(rg6))
        /\ ipv' = [v4 |-> 4 \in ip_ver_flags, v6 |-> 6 \in ip_ver_flags,
                   rgv4 |-> rg4, rgv6 |-> rg6]
    /\ top' = "none"
    /\ o' = NoDirective
    /\ pc' = After("ip_ver_flags")
    /\ UNCHANGED <<server_addr, eer, ip_ver_flags, dopt, i, flags, px, state, log, nfail,
                   stats, error>>
    /\ UNCHANGED <<addr_vars, quiet, oplog>>

----------------------------------------------------------------------------
(* Routes *)

\* sequences over S of length at most n
SeqsUpTo(S, n) == UNION {[1..k -> S] : k \in 0..n}

\* outcome of add_exclude_route: the builder calls made, the record handed to
\* the emulator (if any), and the exception thrown (or "")
ExOut(calls, recs, throws) == [calls |-> calls, recs |-> recs, throws |-> throws]

\* a plausible slip: the native exclude primitive is called although an
\* emulator is supplied
add_exclude_route_native(add, addr, prefix_length, ipv6, e, ret, at) ==
    LET fn == IF add THEN "tun_builder_add_route" ELSE "tun_builder_exclude_route"
        call == Call(fn, <<to_string(addr), prefix_length, ipv6>>, ret, at)
        rec == [add |-> add, addr |-> addr, prefix |-> prefix_length, at |-> at]
    IN  IF ~ret THEN ExOut(<<call>>, <<>>, "tun_prop_route_error")
        ELSE ExOut(<<call>>, IF e.present THEN <<rec>> ELSE <<>>, "")

\* add_exclude_route (lines 279-299)
add_exclude_route(add, addr, prefix_length, ipv6, e, ret, at) ==
    LET addr_str == to_string(addr)
        rec == [add |-> add, addr |-> addr, prefix |-> prefix_length, at |-> at]
        recs == IF e.present THEN <<rec>> ELSE <<>>
    IN  IF add
        THEN LET call == Call("tun_builder_add_route",
                              <<addr_str, prefix_length, ipv6>>, ret, at)
             IN  IF ~ret THEN ExOut(<<call>>, <<>>, "tun_prop_route_error")
                 ELSE ExOut(<<call>>, recs, "")
        ELSE IF ~e.present
        THEN LET call == Call("tun_builder_exclude_route",
                              <<addr_str, prefix_length, ipv6>>, ret, at)
             IN  IF ~ret THEN ExOut(<<call>>, <<>>, "tun_prop_route_error")
                 ELSE ExOut(<<call>>, recs, "")
        ELSE ExOut(<<>>, recs, "")

\* route_target (lines 303-317): "" stands for a directive too short to name a target
route_target(tgt) ==
    IF tgt # ""
    THEN IF tgt = "vpn_gateway" THEN Value(TRUE)
         ELSE IF tgt = "net_gateway" THEN Value(FALSE)
         ELSE Throw("tun_prop_route_error")
    ELSE Value(TRUE)

\* a plausible slip: a route through the VPN gateway is added although
\* redirect-gateway already covers it
add_route_always(d, fam, rg, e, ret, at) ==
    LET pair == AddrMaskPair_from_string(d.a1, d.a2)
    IN  IF pair.what # "value" THEN ExOut(<<>>, <<>>, pair.what)
        ELSE IF ~is_canonical(pair.v) THEN ExOut(<<>>, <<>>, "tun_prop_error")
        ELSE IF pair.v.addr.ver # fam THEN ExOut(<<>>, <<>>, "tun_prop_error")
        ELSE LET add == route_target(d.target)
             IN  IF add.what # "value" THEN ExOut(<<>>, <<>>, add.what)
                 ELSE LET pl == addr_prefix_len(pair.v.netmask)
                      IN  IF pl.what # "value" THEN ExOut(<<>>, <<>>, pl.what)
                          ELSE add_exclude_route(add.v, pair.v.addr, pl.v, fam = 6,
                                                 e, ret, at)

\* a plausible slip: the canonical-form test left out
add_route_nocanon(d, fam, rg, e, ret, at) ==
    LET pair == AddrMaskPair_from_string(d.a1, d.a2)
    IN  IF pair.what # "value" THEN ExOut(<<>>, <<>>, pair.what)
        ELSE IF pair.v.addr.ver # fam THEN ExOut(<<>>, <<>>, "tun_prop_error")
        ELSE LET add == route_target(d.target)
             IN  IF add.what # "value" THEN ExOut(<<>>, <<>>, add.what)
                 ELSE IF ~rg \/ ~add.v
                 THEN LET pl == addr_prefix_len(pair.v.netmask)
                      IN  IF pl.what # "value" THEN ExOut(<<>>, <<>>, pl.what)
                          ELSE add_exclude_route(add.v, pair.v.addr, pl.v, fam = 6,
                                                 e, ret, at)
                 ELSE ExOut(<<>>, <<>>, "")

\* the body of the loop of add_routes over one directive (lines 334-349 for
\* IPv4, 362-377 for IPv6); every exception is caught by the loop
add_route(d, fam, rg, e, ret, at) ==
    LET pair == AddrMaskPair_from_string(d.a1, d.a2)
    IN  IF pair.what # "value" THEN ExOut(<<>>, <<>>, pair.what)
        ELSE IF ~is_canonical(pair.v) THEN ExOut(<<>>, <<>>, "tun_prop_error")
        ELSE IF pair.v.addr.ver # fam THEN ExOut(<<>>, <<>>, "tun_prop_error")
        ELSE LET add == route_target(d.target)
             IN  IF add.what # "value" THEN ExOut(<<>>, <<>>, add.what)
                 ELSE IF ~rg \/ ~add.v
                 THEN LET pl == addr_prefix_len(pair.v.netmask)
                      IN  IF pl.what # "value" THEN ExOut(<<>>, <<>>, pl.what)
                          ELSE add_exclude_route(add.v, pair.v.addr, pl.v, fam = 6,
                                                 e, ret, at)
                 ELSE ExOut(<<>>, <<>>, "")

\* the body of the loop of add_remote_bypass_routes (lines 393-405)
add_remote_bypass_route(addr, srv, e, ret, at) ==
    IF addr # srv
    THEN add_exclude_route(FALSE, addr, version_size(addr.ver), addr.ver = 6, e, ret, at)
    ELSE ExOut(<<>>, <<>>, "")

RemoteAddrs == {S1, S2, S6}

Route(t1, t2, tgt) == [name |-> "route", a1 |-> t1, a2 |-> t2, target |-> tgt]
Mask4(p) == TokAddr(Addr(4, NetmaskTable[p]))
Mask6(p) == TokAddr(Addr(6, NetmaskV6Table[p]))

RouteOpts ==
    { Route(TokAddr(V4(10, 0, 0, 0)), Mask4(8), ""),
      Route(TokAddr(V4(192, 168, 1, 0)), Mask4(24), "vpn_gateway"),
      Route(TokAddr(V4(172, 16, 0, 0)), Mask4(12), "net_gateway"),
      Route(TokAddr(V4(10, 0, 0, 5)), Mask4(24), ""),
      Route(TokAddr(V4(10, 0, 0, 0)), TokAddr(V4(255, 0, 255, 0)), "net_gateway"),
      Route(TokBad, TokAbsent, ""),
      Route(TokAddr(V6(253, 0)), Mask6(64), "vpn_gateway"),
      Route(TokAddr(V4(10, 1, 0, 0)), Mask4(16), "10.8.0.1") }

Route6Opts ==
    { Route(TokAddr(V6(253, 0)), Mask6(64), ""),
      Route(TokAddr(V6(254, 0)), Mask6(16), "net_gateway"),
      Route(TokAddr(V6(253, 5)), Mask6(64), "vpn_gateway"),
      Route(TokAddr(V4(10, 0, 0, 0)), Mask4(8), "") }

\* configure_builder lines 109-110 and add_remote_bypass_routes lines 389-391
RemoteBypassBegin ==
    /\ pc = "remote_bypass"
    /\ \E bypass \in BOOLEAN :
        /\ o' = [name |-> "config", remote_bypass |-> bypass]
        /\ IF bypass
           THEN \E l \in SeqsUpTo(RemoteAddrs, Avail) :
                /\ dopt' = l /\ i' = 1 /\ left' = left - Len(l)
                /\ pc' = "remote_bypass_loop"
           ELSE /\ pc' = After("remote_bypass")
                /\ UNCHANGED <<dopt, i, left>>
    /\ UNCHANGED <<server_addr, eer, top, ip_ver_flags, ipv, flags, px, state, log, nfail,
                   stats, error>>
    /\ UNCHANGED <<addr_vars, quiet, oplog>>

\* one iteration of the loop of add_remote_bypass_routes
RemoteBypassStep ==
    /\ pc = "remote_bypass_loop"
    /\ i <= Len(dopt)
    /\ \E ret \in Rets, q \in Quiets :
        LET r == add_remote_bypass_route(dopt[i], server_addr, eer, ret, pc)
            h == handler(r.throws, "Error adding remote bypass route", q)
        IN  /\ Record(r.calls)
            /\ eer' = [eer EXCEPT !.routes = @ \o r.recs]
            /\ Logged(r.throws # "", q, h.lines)
            /\ Handled(h)
    /\ i' = i + 1
    /\ UNCHANGED <<server_addr, top, o, ip_ver_flags, ipv, dopt, flags, px, state,
                   stats, left>>
    /\ UNCHANGED addr_vars

\* add_remote_bypass_routes returns
RemoteBypassEnd ==
    /\ pc = "remote_bypass_loop"
    /\ i > Len(dopt)
    /\ pc' = After("remote_bypass")
    /\ dopt' = <<>> /\ i' = 0
    /\ UNCHANGED <<server_addr, eer, top, o, ip_ver_flags, ipv, flags, px, state, log, nfail,
                   stats, error, left>>
    /\ UNCHANGED <<addr_vars, quiet, oplog>>

\* add_routes lines 327-331: look up the route directives
AddRoutesV4Begin ==
    /\ pc = "add_routes_v4"
    /\ o' = NoDirective
    /\ IF ipv.v4
       THEN \E l \in SeqsUpTo(RouteOpts, Avail) :
            /\ dopt' = l /\ i' = 1 /\ left' = left - Len(l)
            /\ pc' = "add_routes_v4_loop"
       ELSE /\ pc' = After("add_routes_v4")
            /\ UNCHANGED <<dopt, i, left>>
    /\ UNCHANGED <<server_addr, eer, top, ip_ver_flags, ipv, flags, px, state, log, nfail,
                   stats, error>>
    /\ UNCHANGED <<addr_vars, quiet, oplog>>

\* one iteration of the IPv4 loop of add_routes
AddRouteV4 ==
    /\ pc = "add_routes_v4_loop"
    /\ i <= Len(dopt)
    /\ \E ret \in Rets, q \in Quiets :
        LET r == add_route(dopt[i], 4, ipv.rgv4, eer, ret, pc)
            h == handler(r.throws, "Error parsing IPv4 route", q)
        IN  /\ Record(r.calls)
            /\ eer' = [eer EXCEPT !.routes = @ \o r.recs]
            /\ Logged(r.throws # "", q, h.lines)
            /\ Handled(h)
    /\ i' = i + 1
    /\ UNCHANGED <<server_addr, top, o, ip_ver_flags, ipv, dopt, flags, px, state,
                   stats, left>>
    /\ UNCHANGED addr_vars

\* the IPv4 loop ends
AddRoutesV4End ==
    /\ pc = "add_routes_v4_loop"
    /\ i > Len(dopt)
    /\ pc' = After("add_routes_v4")
    /\ dopt' = <<>> /\ i' = 0
    /\ UNCHANGED <<server_addr, eer, top, o, ip_ver_flags, ipv, flags, px, state, log, nfail,
                   stats, error, left>>
    /\ UNCHANGED <<addr_vars, quiet, oplog>>

\* add_routes lines 355-359: look up the route-ipv6 directives
AddRoutesV6Begin ==
    /\ pc = "add_routes_v6"
    /\ IF ipv.v6
       THEN \E l \in SeqsUpTo(Route6Opts, Avail) :
            /\ dopt' = l /\ i' = 1 /\ left' = left - Len(l)
            /\ pc' = "add_routes_v6_loop"
       ELSE /\ pc' = After("add_routes_v6")
            /\ UNCHANGED <<dopt, i, left>>
    /\ UNCHANGED <<server_addr, eer, top, o, ip_ver_flags, ipv, flags, px, state, log, nfail,
                   stats, error>>
    /\ UNCHANGED <<addr_vars, quiet, oplog>>

\* one iteration of the IPv6 loop of add_routes
AddRouteV6 ==
    /\ pc = "add_routes_v6_loop"
    /\ i <= Len(dopt)
    /\ \E ret \in Rets, q \in Quiets :
        LET r == add_route(dopt[i], 6, ipv.rgv6, eer, ret, pc)
            h == handler(r.throws, "Error parsing IPv6 route", q)
        IN  /\ Record(r.calls)
            /\ eer' = [eer EXCEPT !.routes = @ \o r.recs]
            /\ Logged(r.throws # "", q, h.lines)
            /\ Handled(h)
    /\ i' = i + 1
    /\ UNCHANGED <<server_addr, top, o, ip_ver_flags, ipv, dopt, flags, px, state,
                   stats, left>>
    /\ UNCHANGED addr_vars

\* the IPv6 loop ends and add_routes returns
AddRoutesV6End ==
    /\ pc = "add_routes_v6_loop"
    /\ i > Len(dopt)
    /\ pc' = After("add_routes_v6")
    /\ dopt' = <<>> /\ i' = 0
    /\ UNCHANGED <<server_addr, eer, top, o, ip_ver_flags, ipv, flags, px, state, log, nfail,
                   stats, error, left>>
    /\ UNCHANGED <<addr_vars, quiet, oplog>>

----------------------------------------------------------------------------
(* Emulated exclude routes and redirect-gateway *)

\* the answers of the builder to the calls of one step: the f-th call of the
\* step fails (0: none does)
FailAt(n) == IF Avail > 0 THEN 0..n ELSE {0}

\* EmulateExcludeRoute::emulate: the emulator's own add-route call
emulate(ret, at) ==
    <<Call("tun_builder_add_route", <<to_string(V4(0, 0, 0, 0)), 1, FALSE>>, ret, at)>>

\* configure_builder lines 116-117
Emulate ==
    /\ pc = "emulate"
    /\ IF eer.present
       THEN \E enabled \in BOOLEAN, ret \in Rets :
            IF enabled THEN Record(emulate(ret, pc)) ELSE UNCHANGED <<log, nfail>>
       ELSE UNCHANGED <<log, nfail>>
    /\ pc' = After("emulate")
    /\ UNCHANGED <<server_addr, eer, top, o, ip_ver_flags, ipv, dopt, i, flags, px,
                   state, stats, error, left>>
    /\ UNCHANGED <<addr_vars, quiet, oplog>>

\* configure_builder lines 120-121
RerouteGw ==
    /\ pc = "reroute_gw"
    /\ \E ret \in Rets :
        /\ Record(<<Call("tun_builder_reroute_gw", <<ipv.rgv4, ipv.rgv6, 0>>, ret, pc)>>)
        /\ IF ret THEN pc' = After("reroute_gw") /\ UNCHANGED error
           ELSE Raise(Err("tun_prop_route_error",
                          "tun_builder_reroute_gw for redirect-gateway failed"))
    /\ UNCHANGED <<server_addr, eer, top, o, ip_ver_flags, ipv, dopt, i, flags, px,
                   state, stats, left>>
    /\ UNCHANGED <<addr_vars, quiet, oplog>>

----------------------------------------------------------------------------
(* add_dhcp_options *)

\* the value of an unsigned int that was declared and never assigned
Indeterminate == -1
\* values such a variable may turn out to hold
GarbagePorts == {0, 47806}

Port(valid, v) == [valid |-> valid, v |-> v]
NoPort == Port(FALSE, 0)

\* a dhcp-option directive: its type token (o.get(1)), its number of tokens
\* (o.size()), an address token, its text tokens after splitting, its port token
Dhcp(type, size, a, strs, port) ==
    [name |-> "dhcp-option", type |-> type, size |-> size, a |-> a, strs |-> strs,
     port |-> port]

\* HostPort::validate_port: writes *value only when the port is legal
validate_port(port, old) ==
    IF port.valid THEN Value(port.v) ELSE Throw("host_port_error")

\* outcome of one dhcp-option: the calls made, the proxy locals, whether
\* F_ADD_DNS was set, the exception caught (or "")
DhOut(calls, p, dns, throws) == [calls |-> calls, px |-> p, dns |-> dns, throws |-> throws]

\* calls fn(strs[1]), fn(strs[2]), ... up to and including the first that fails
CallEach(fn, strs, f, at) ==
    [k \in 1..(IF f \in 1..Len(strs) THEN f ELSE Len(strs)) |->
        Call(fn, <<strs[k]>>, k # f, at)]

\* a plausible slip: F_ADD_DNS is set on seeing the directive, before it is
\* parsed and handed to the builder
dhcp_option_dns_early(d, p, f, at) ==
    IF d.size # 3 THEN DhOut(<<>>, p, TRUE, "option_error")
    ELSE LET ip == ParseAddr(d.a)
         IN  IF ip.what # "value" THEN DhOut(<<>>, p, TRUE, ip.what)
             ELSE LET call == Call("tun_builder_add_dns_server",
                                   <<to_string(ip.v), ip.v.ver = 6>>, f # 1, at)
                  IN  IF f = 1
                      THEN DhOut(<<call>>, p, TRUE, "tun_prop_dhcp_option_error")
                      ELSE DhOut(<<call>>, p, TRUE, "")

\* a DNS dhcp-option (lines 436-444)
dhcp_option_dns(d, p, f, at) ==
    IF d.size # 3 THEN DhOut(<<>>, p, FALSE, "option_error")
    ELSE LET ip == ParseAddr(d.a)
         IN  IF ip.what # "value" THEN DhOut(<<>>, p, FALSE, ip.what)
             ELSE LET call == Call("tun_builder_add_dns_server",
                                   <<to_string(ip.v), ip.v.ver = 6>>, f # 1, at)
                  IN  IF f = 1
                      THEN DhOut(<<call>>, p, FALSE, "tun_prop_dhcp_option_error")
                      ELSE DhOut(<<call>>, p, TRUE, "")

\* the body of the loop of add_dhcp_options over one directive (lines 433-506)
dhcp_option(d, p, f, at) ==
    IF d.size < 2 THEN DhOut(<<>>, p, FALSE, "option_error")
    ELSE IF d.type = "DNS" THEN dhcp_option_dns(d, p, f, at)
    ELSE IF d.type = "DOMAIN"
    THEN IF d.size < 3 THEN DhOut(<<>>, p, FALSE, "option_error")
         ELSE DhOut(CallEach("tun_builder_add_search_domain", d.strs, f, at), p, FALSE,
                    IF f \in 1..Len(d.strs) THEN "tun_prop_dhcp_option_error" ELSE "")
    ELSE IF d.type = "PROXY_BYPASS"
    THEN IF d.size < 3 THEN DhOut(<<>>, p, FALSE, "option_error")
         ELSE DhOut(CallEach("tun_builder_add_proxy_bypass", d.strs, f, at), p, FALSE,
                    IF f \in 1..Len(d.strs) THEN "tun_prop_dhcp_option_error" ELSE "")
    ELSE IF d.type = "PROXY_AUTO_CONFIG_URL"
    THEN IF d.size # 3 THEN DhOut(<<>>, p, FALSE, "option_error")
         ELSE DhOut(<<>>, [p EXCEPT !.auto_config_url = d.strs[1]], FALSE, "")
    ELSE IF d.type = "PROXY_HTTP"
    THEN IF d.size # 4 THEN DhOut(<<>>, p, FALSE, "option_error")
         ELSE LET p1 == [p EXCEPT !.http_host = d.strs[1]]
                  port == validate_port(d.port, p.http_port)
              IN  IF port.what # "value" THEN DhOut(<<>>, p1, FALSE, port.what)
                  ELSE DhOut(<<>>, [p1 EXCEPT !.http_port = port.v], FALSE, "")
    ELSE IF d.type = "PROXY_HTTPS"
    THEN IF d.size # 4 THEN DhOut(<<>>, p, FALSE, "option_error")
         ELSE LET p1 == [p EXCEPT !.https_host = d.strs[1]]
                  port == validate_port(d.port, p.https_port)
              IN  IF port.what # "value" THEN DhOut(<<>>, p1, FALSE, port.what)
                  ELSE DhOut(<<>>, [p1 EXCEPT !.https_port = port.v], FALSE, "")
    ELSE IF d.type = "WINS"
    THEN IF d.size # 3 THEN DhOut(<<>>, p, FALSE, "option_error")
         ELSE LET ip == ParseAddr(d.a)
              IN  IF ip.what # "value" THEN DhOut(<<>>, p, FALSE, ip.what)
                  ELSE IF ip.v.ver # 4
                  THEN DhOut(<<>>, p, FALSE, "tun_prop_dhcp_option_error")
                  ELSE DhOut(<<Call("tun_builder_add_wins_server", <<to_string(ip.v)>>,
                                    f # 1, at)>>,
                             p, FALSE,
                             IF f = 1 THEN "tun_prop_dhcp_option_error" ELSE "")
    ELSE DhOut(<<>>, p, FALSE, "")

\* the proxy settings applied after the loop (lines 508-529); hp and hsp are
\* the values read from http_port and https_port; the first call that fails
\* throws, and the exception is caught after the last of the three
dhcp_proxy(p, hp, hsp, f, at) ==
    LET c1 == IF p.http_host # ""
              THEN <<Call("tun_builder_set_proxy_http", <<p.http_host, hp>>, f # 1, at)>>
              ELSE <<>>
        ok1 == \A k \in DOMAIN c1 : c1[k].ret
        c2 == IF ok1 /\ p.https_host # ""
              THEN <<Call("tun_builder_set_proxy_https", <<p.https_host, hsp>>,
                          f # Len(c1) + 1, at)>>
              ELSE <<>>
        ok2 == ok1 /\ \A k \in DOMAIN c2 : c2[k].ret
        c3 == IF ok2 /\ p.auto_config_url # ""
              THEN <<Call("tun_builder_set_proxy_auto_config_url", <<p.auto_config_url>>,
                          f # Len(c1) + Len(c2) + 1, at)>>
              ELSE <<>>
    IN  c1 \o c2 \o c3

DhcpOpts ==
    { Dhcp("DNS", 3, TokAddr(V4(10, 8, 0, 53)), <<>>, NoPort),
      Dhcp("DNS", 3, TokBad, <<>>, NoPort),
      Dhcp("WINS", 3, TokAddr(V4(10, 8, 0, 54)), <<>>, NoPort),
      Dhcp("WINS", 3, TokAddr(V6(253, 54)), <<>>, NoPort),
      Dhcp("DOMAIN", 3, TokAbsent, <<"openvpn.net", "example.com">>, NoPort),
      Dhcp("PROXY_BYPASS", 3, TokAbsent, <<"server1">>, NoPort),
      Dhcp("PROXY_AUTO_CONFIG_URL", 3, TokAbsent, <<"http://pac">>, NoPort),
      Dhcp("PROXY_HTTP", 4, TokAbsent, <<"foo.bar.gov">>, Port(TRUE, 1234)),
      Dhcp("PROXY_HTTP", 4, TokAbsent, <<"host">>, Port(FALSE, 70000)),
      Dhcp("PROXY_HTTPS", 4, TokAbsent, <<"sec.bar.gov">>, Port(TRUE, 443)),
      Dhcp("PROXY_HTTPS", 4, TokAbsent, <<"sec">>, Port(FALSE, 0)),
      Dhcp("NTP", 3, TokAddr(V4(10, 8, 0, 55)), <<>>, NoPort),
      Dhcp("", 1, TokAbsent, <<>>, NoPort) }

\* the directive reaches the last else of the loop body (line 499)
dhcp_unknown(d) ==
    /\ d.size >= 2
    /\ d.type \notin {"DNS", "DOMAIN", "PROXY_BYPASS", "PROXY_AUTO_CONFIG_URL",
                      "PROXY_HTTP", "PROXY_HTTPS", "WINS"}

\* add_dhcp_options lines 422-430: look up the dhcp-option directives
DhcpBegin ==
    /\ pc = "add_dhcp_options"
    /\ flags' = {}
    /\ \E l \in SeqsUpTo(DhcpOpts, Avail) :
        IF l = <<>>
        THEN /\ pc' = After("add_dhcp_options")
             /\ UNCHANGED <<dopt, i, px, left>>
        ELSE /\ dopt' = l /\ i' = 1 /\ left' = left - Len(l)
             /\ px' = [NoProxy EXCEPT !.http_port = Indeterminate,
                                      !.https_port = Indeterminate]
             /\ pc' = "add_dhcp_options_loop"
    /\ UNCHANGED <<server_addr, eer, top, o, ip_ver_flags, ipv, state, log, nfail, stats,
                   error>>
    /\ UNCHANGED <<addr_vars, quiet, oplog>>

\* one iteration of the loop of add_dhcp_options
DhcpOption ==
    /\ pc = "add_dhcp_options_loop"
    /\ i <= Len(dopt)
    /\ \E f \in FailAt(Len(dopt[i].strs) + 1), q \in Quiets :
        LET r == dhcp_option(dopt[i], px, f, pc)
            h == handler(r.throws, "Error parsing dhcp-option", q)
            unknown == dhcp_unknown(dopt[i])
        IN  /\ Record(r.calls)
            /\ px' = r.px
            /\ flags' = IF r.dns THEN flags \cup {"F_ADD_DNS"} ELSE flags
            /\ Logged(r.throws # "" \/ unknown, q,
                      IF unknown THEN log_unless_quiet(q, "Unknown pushed DHCP option")
                      ELSE h.lines)
            /\ Handled(h)
    /\ i' = i + 1
    /\ UNCHANGED <<server_addr, eer, top, o, ip_ver_flags, ipv, dopt, state, stats, left>>
    /\ UNCHANGED addr_vars

\* after the loop: the proxy settings, then add_dhcp_options returns
DhcpProxy ==
    /\ pc = "add_dhcp_options_loop"
    /\ i > Len(dopt)
    /\ \E f \in FailAt(3),
          hp \in IF px.http_port = Indeterminate THEN GarbagePorts ELSE {px.http_port},
          hsp \in IF px.https_port = Indeterminate THEN GarbagePorts ELSE {px.https_port},
          q \in Quiets :
        LET calls == dhcp_proxy(px, hp, hsp, f, pc)
            throws == IF \A k \in DOMAIN calls : calls[k].ret THEN ""
                      ELSE "tun_prop_dhcp_option_error"
            h == handler(throws, "Error setting dhcp-option for proxy", q)
        IN  /\ Record(calls)
            /\ Logged(throws # "", q, h.lines)
            /\ IF h.throws = "" THEN pc' = After("add_dhcp_options") /\ UNCHANGED error
               ELSE Raise(Err(h.throws, ""))
    /\ px' = NoProxy
    /\ UNCHANGED <<server_addr, eer, top, o, ip_ver_flags, ipv, dopt, i, flags, state,
                   stats, left>>
    /\ UNCHANGED addr_vars

----------------------------------------------------------------------------
(* The rest of configure_builder *)

\* configure_builder line 127: the return value is not looked at
SetBlockIPv6 ==
    /\ pc = "set_block_ipv6"
    /\ \E b \in BOOLEAN, ret \in Rets :
        /\ Given(b) + Given(~ret) <= Avail
        /\ left' = left - Given(b)
        /\ Record(<<Call("tun_builder_set_block_ipv6", <<b>>, ret, pc)>>)
    /\ pc' = After("set_block_ipv6")
    /\ UNCHANGED <<server_addr, eer, top, o, ip_ver_flags, ipv, dopt, i, flags, px,
                   state, stats, error>>
    /\ UNCHANGED <<addr_vars, quiet, oplog>>

\* add_google_dns (lines 557-562): the calls made when the f-th fails
add_google_dns(f, at) ==
    LET c1 == Call("tun_builder_add_dns_server", <<to_string(V4(8, 8, 8, 8)), FALSE>>,
                   f # 1, at)
        c2 == Call("tun_builder_add_dns_server", <<to_string(V4(8, 8, 4, 4)), FALSE>>,
                   f # 2, at)
    IN  IF f = 1 THEN <<c1>> ELSE <<c1, c2>>

\* a plausible slip: braces forgotten, add_google_dns falls under if (!quiet)
dns_fallback_unbraced(fb, st, f, q, at) ==
    IF fb
    THEN [calls |-> IF q THEN <<>> ELSE add_google_dns(f, at),
          events |-> <<>>,
          lines |-> log_unless_quiet(q, "Google DNS fallback enabled")]
    ELSE [calls |-> <<>>,
          events |-> IF st THEN <<"REROUTE_GW_NO_DNS">> ELSE <<>>,
          lines |-> <<>>]

\* configure_builder lines 132-139, the body of the DNS-fallback test: the
\* builder calls made, the stats events raised, the lines logged
dns_fallback(fb, st, f, q, at) ==
    IF fb
    THEN [calls |-> add_google_dns(f, at),
          events |-> <<>>,
          lines |-> log_unless_quiet(q, "Google DNS fallback enabled")]
    ELSE [calls |-> <<>>,
          events |-> IF st THEN <<"REROUTE_GW_NO_DNS">> ELSE <<>>,
          lines |-> <<>>]

\* configure_builder lines 130-140
DnsFallback ==
    /\ pc = "dns_fallback"
    /\ IF ipv.rgv4 /\ "F_ADD_DNS" \notin flags
       THEN \E fb \in BOOLEAN, st \in BOOLEAN, f \in FailAt(2), q \in Quiets :
            LET r == dns_fallback(fb, st, f, q, pc)
            IN  /\ o' = [name |-> "dns_fallback", google_dns_fallback |-> fb, stats |-> st]
                /\ Record(r.calls)
                /\ stats' = stats \o r.events
                /\ Logged(fb, q, r.lines)
                /\ IF \A k \in DOMAIN r.calls : r.calls[k].ret
                   THEN pc' = After("dns_fallback") /\ UNCHANGED error
                   ELSE Raise(Err("tun_prop_dhcp_option_error",
                                  "tun_builder_add_dns_server failed for Google DNS"))
       ELSE /\ pc' = After("dns_fallback")
            /\ UNCHANGED <<o, log, nfail, stats, error, quiet, oplog>>
    /\ UNCHANGED <<server_addr, eer, top, ip_ver_flags, ipv, dopt, i, flags, px, state,
                   left>>
    /\ UNCHANGED addr_vars

\* configure_builder lines 143-145; add_dhcp_options' results are no longer used
SetRemoteAddress ==
    /\ pc = "set_remote_address"
    /\ \E ret \in Rets :
        /\ Record(<<Call("tun_builder_set_remote_address",
                         <<to_string(server_addr), server_addr.ver = 6>>, ret, pc)>>)
        /\ IF ret THEN pc' = After("set_remote_address") /\ UNCHANGED error
           ELSE Raise(Err("tun_prop_error", "tun_builder_set_remote_address failed"))
    /\ o' = NoDirective /\ dopt' = <<>> /\ i' = 0 /\ flags' = {}
    /\ UNCHANGED <<server_addr, eer, top, ip_ver_flags, ipv, px, state, stats, left>>
    /\ UNCHANGED <<addr_vars, quiet, oplog>>

MtuOpts == {0, 1500}
SessionNameOpts == {"", "vpn"}

\* configure_builder lines 148-152
SetMtu ==
    /\ pc = "set_mtu"
    /\ \E mtu \in MtuOpts, ret \in Rets :
        /\ Given(mtu # 0) + Given(~ret) <= Avail
        /\ left' = left - Given(mtu # 0)
        /\ o' = [name |-> "config.mtu", mtu |-> mtu]
        /\ IF mtu # 0
           THEN /\ Record(<<Call("tun_builder_set_mtu", <<mtu>>, ret, pc)>>)
                /\ IF ret THEN pc' = After("set_mtu") /\ UNCHANGED error
                   ELSE Raise(Err("tun_prop_error", "tun_builder_set_mtu failed"))
           ELSE /\ pc' = After("set_mtu")
                /\ UNCHANGED <<log, nfail, error>>
    /\ UNCHANGED <<server_addr, eer, top, ip_ver_flags, ipv, dopt, i, flags, px, state,
                   stats>>
    /\ UNCHANGED <<addr_vars, quiet, oplog>>

\* configure_builder lines 155-159, and the normal return
SetSessionName ==
    /\ pc = "set_session_name"
    /\ \E name \in SessionNameOpts, ret \in Rets :
        /\ Given(name # "") + Given(~ret) <= Avail
        /\ left' = left - Given(name # "")
        /\ o' = [name |-> "config.session_name", session_name |-> name]
        /\ IF name # ""
           THEN /\ Record(<<Call("tun_builder_set_session_name", <<name>>, ret, pc)>>)
                /\ IF ret THEN pc' = After("set_session_name") /\ UNCHANGED error
                   ELSE Raise(Err("tun_prop_error", "tun_builder_set_session_name failed"))
           ELSE /\ pc' = After("set_session_name")
                /\ UNCHANGED <<log, nfail, error>>
    /\ UNCHANGED <<server_addr, eer, top, ip_ver_flags, ipv, dopt, i, flags, px, state,
                   stats>>
    /\ UNCHANGED <<addr_vars, quiet, oplog>>

Next ==
    \/ TunIfconfigV4 \/ TunIfconfigV6 \/ MakeIPVerFlags
    \/ RemoteBypassBegin \/ RemoteBypassStep \/ RemoteBypassEnd
    \/ AddRoutesV4Begin \/ AddRouteV4 \/ AddRoutesV4End
    \/ AddRoutesV6Begin \/ AddRouteV6 \/ AddRoutesV6End
    \/ Emulate \/ RerouteGw
    \/ DhcpBegin \/ DhcpOption \/ DhcpProxy
    \/ SetBlockIPv6 \/ DnsFallback \/ SetRemoteAddress \/ SetMtu \/ SetSessionName

Spec == Init /\ [][Next]_vars

SpecQuiet == InitQuiet /\ [][Next]_vars

----------------------------------------------------------------------------
(* Properties of one pass *)

\* the builder calls made, and the emulator records made, at statement at
StageCalls(at) == SelectSeq(log, LAMBDA c : c.at = at)
StageRecs(at) == SelectSeq(eer.routes, LAMBDA r : r.at = at)

\* two IPv4 addresses lie in the same /30: they agree outside their two low bits
SameSlash30(a, b) ==
    a[1] = b[1] /\ a[2] = b[2] /\ a[3] = b[3] /\ a[4] \div 4 = b[4] \div 4

\* tun_ifconfig has just read, under topology net30, an ifconfig directive
\* whose two tokens are IPv4 addresses
C2_Case ==
    /\ top = "NET30" /\ o.name = "ifconfig"
    /\ o.a1.k = "addr" /\ o.a2.k = "addr"
    /\ o.a1.a.ver = 4 /\ o.a2.a.ver = 4

AddAddressV4 == SelectSeq(log, LAMBDA c : c.fn = "tun_builder_add_address" /\ ~c.args[4])

\* C2: under net30 an ifconfig directive with IPv4 local and remote passes
\* the address test exactly when local and remote lie in the same /30; then
\* exactly one add-address call (local, 30, remote, is-v6 false, net30 true) is
\* made, and the State's IPv4 address is written when the builder accepts it;
\* otherwise the pass fails with tun_prop_error, no IPv4 add-address call is
\* made and the State's IPv4 address is not written.
C2_Net30SameSubnet ==
    C2_Case =>
        LET local == o.a1.a
            remote == o.a2.a
            calls == AddAddressV4
        IN  IF SameSlash30(local.w, remote.w)
            THEN /\ Len(calls) = 1
                 /\ calls[1].args = <<local.w, 30, remote.w, FALSE, TRUE>>
                 /\ calls[1].ret =>
                       /\ pc = "tun_ifconfig_ipv6" /\ error = NoError
                       /\ state.vpn_ip4_addr = local
                 /\ ~calls[1].ret =>
                       /\ pc = "failed" /\ error.type = "tun_prop_error"
                       /\ state.vpn_ip4_addr = NoAddr
            ELSE /\ pc = "failed" /\ error.type = "tun_prop_error"
                 /\ calls = <<>>
                 /\ state.vpn_ip4_addr = NoAddr

\* local 10.8.0.1 and remote 10.8.0.2 were accepted
C2_Witness ==
    /\ C2_Case /\ SameSlash30(o.a1.a.w, o.a2.a.w)
    /\ pc = "tun_ifconfig_ipv6" /\ Len(log) = 1 /\ state.vpn_ip4_addr = o.a1.a

\* w is a netmask of family fam
IsNetmaskOf(fam, w) ==
    IF fam = 4 THEN IsNetmask(w) ELSE \E p \in 1..V6Size : w = NetmaskV6Table[p]

\* a route directive every test of the loop body lets through
WellFormedRoute(d, fam) ==
    /\ d.a1.k = "addr" /\ d.a1.a.ver = fam
    /\ \/ d.a2.k = "absent"
       \/ /\ d.a2.k = "addr" /\ d.a2.a.ver = fam
          /\ IsNetmaskOf(fam, d.a2.a.w)
          /\ \A j \in DOMAIN d.a1.a.w :
                BitAnd8(d.a1.a.w[j], d.a2.a.w[j]) = d.a1.a.w[j]
    /\ d.target \in {"", "vpn_gateway", "net_gateway"}

\* the prefix length a well-formed route directive denotes
RoutePrefix(d, fam) ==
    IF d.a2.k = "absent" THEN version_size(fam)
    ELSE IF fam = 4 THEN CHOOSE p \in 1..V4Size : NetmaskTable[p] = d.a2.a.w
    ELSE CHOOSE p \in 1..V6Size : NetmaskV6Table[p] = d.a2.a.w

\* what one iteration of a loop of add_routes does for a well-formed directive
C3_Step(fam, loop, rg) ==
    (pc = loop /\ i <= Len(dopt) /\ WellFormedRoute(dopt[i], fam)) =>
        LET d == dopt[i]
            calls == SubSeq(log', Len(log) + 1, Len(log'))
            recs == SubSeq(eer'.routes, Len(eer.routes) + 1, Len(eer'.routes))
            args == <<d.a1.a.w, RoutePrefix(d, fam), fam = 6>>
        IN  IF d.target # "net_gateway"
            THEN IF rg
                 THEN calls = <<>> /\ recs = <<>>
                 ELSE /\ Len(calls) = 1
                      /\ calls[1].fn = "tun_builder_add_route"
                      /\ calls[1].args = args
                      /\ \A k \in DOMAIN recs : recs[k].add
            ELSE IF eer.present
                 THEN /\ calls = <<>>
                      /\ Len(recs) = 1
                      /\ ~recs[1].add
                      /\ recs[1].addr = d.a1.a
                      /\ recs[1].prefix = RoutePrefix(d, fam)
                 ELSE /\ Len(calls) = 1
                      /\ calls[1].fn = "tun_builder_exclude_route"
                      /\ calls[1].args = args
                      /\ recs = <<>>

\* C3: for a well-formed route directive of a present family: target
\* vpn_gateway (or none) with redirect-gateway active for the family makes no
\* add-route, exclude-route or emulator record; with it inactive makes
\* exactly one add-route call; target net_gateway makes exactly one exclusion
\* (the emulator's record when there is an emulator, else one native
\* exclude-route call) whatever the redirect-gateway state.
C3_RouteByTarget ==
    [][/\ C3_Step(4, "add_routes_v4_loop", ipv.rgv4)
       /\ C3_Step(6, "add_routes_v6_loop", ipv.rgv6)]_vars

\* with redirect-gateway active for IPv4, a net_gateway route was excluded natively
C3_Witness ==
    /\ pc = "add_routes_v4_loop" /\ i = 2 /\ ipv.rgv4
    /\ WellFormedRoute(dopt[1], 4) /\ dopt[1].target = "net_gateway"
    /\ \E k \in DOMAIN log : log[k].fn = "tun_builder_exclude_route"

\* one loop of add_routes, redirect-gateway inactive for its family
C4_Loop(fam, loop, rg) ==
    (pc = loop /\ ~rg) =>
        LET calls == StageCalls(loop)
            excl == SelectSeq(StageRecs(loop), LAMBDA r : ~r.add)
            good == SelectSeq(SubSeq(dopt, 1, i - 1), LAMBDA d : WellFormedRoute(d, fam))
            viaBuilder == SelectSeq(good, LAMBDA d : d.target # "net_gateway" \/ ~eer.present)
            viaEmulator == SelectSeq(good, LAMBDA d : d.target = "net_gateway" /\ eer.present)
        IN  /\ error = NoError
            /\ Len(calls) + Len(excl) = Len(good)
            /\ Len(calls) = Len(viaBuilder)
            /\ \A k \in DOMAIN calls :
                  /\ calls[k].fn = IF viaBuilder[k].target = "net_gateway"
                                   THEN "tun_builder_exclude_route"
                                   ELSE "tun_builder_add_route"
                  /\ calls[k].args[1] = viaBuilder[k].a1.a.w
            /\ Len(excl) = Len(viaEmulator)
            /\ \A k \in DOMAIN excl : excl[k].addr = viaEmulator[k].a1.a

\* C4: a malformed route directive is skipped without failing the pass: with
\* redirect-gateway inactive, after the first m directives of the list the
\* route calls (builder calls and emulator exclusions) made are exactly those
\* of the well-formed ones among the m, in the order of the list, and no error
\* has been raised.
C4_MalformedRouteSkipped ==
    /\ C4_Loop(4, "add_routes_v4_loop", ipv.rgv4)
    /\ C4_Loop(6, "add_routes_v6_loop", ipv.rgv6)

\* a malformed directive, then a well-formed one, and the loop has ended
C4_Witness ==
    /\ pc = "add_routes_v4_loop" /\ ~ipv.rgv4 /\ i = 3 /\ Len(dopt) = 2
    /\ ~WellFormedRoute(dopt[1], 4) /\ WellFormedRoute(dopt[2], 4)
    /\ Len(StageCalls(pc)) + Len(StageRecs(pc)) >= 1

\* the DNS-fallback statement has just run
AfterDnsFallback ==
    \/ pc = "set_remote_address"
    \/ pc = "failed" /\ error.what = "tun_builder_add_dns_server failed for Google DNS"

\* its outer test was true
FallbackTaken == o.name = "dns_fallback"

\* a DNS dhcp-option is in the directive list
DnsSeen == \E k \in DOMAIN dopt : dopt[k].type = "DNS"

\* a DNS dhcp-option was parsed and the builder accepted its add-dns-server call
DnsApplied ==
    \E k \in DOMAIN log :
        /\ log[k].fn = "tun_builder_add_dns_server"
        /\ log[k].at = "add_dhcp_options_loop"
        /\ log[k].ret

FallbackCalls == StageCalls("dns_fallback")
Google1 == <<<<8, 8, 8, 8>>, FALSE>>
Google2 == <<<<8, 8, 4, 4>>, FALSE>>

\* C5 as stated: the fallback path is taken iff redirect-gateway for IPv4 is
\* active and no DNS dhcp-option is in the list; taken with fallback enabled
\* makes exactly the two fallback add-dns-server calls and no stats event;
\* taken with fallback disabled raises exactly one REROUTE_GW_NO_DNS event and
\* adds no address; not taken does neither.
C5_AsStated ==
    AfterDnsFallback =>
        /\ FallbackTaken <=> (ipv.rgv4 /\ ~DnsSeen)
        /\ (FallbackTaken /\ o.google_dns_fallback) =>
              /\ Len(FallbackCalls) = 2
              /\ FallbackCalls[1].args = Google1 /\ FallbackCalls[2].args = Google2
              /\ stats = <<>>
        /\ (FallbackTaken /\ ~o.google_dns_fallback) =>
              FallbackCalls = <<>> /\ stats = <<"REROUTE_GW_NO_DNS">>
        /\ ~FallbackTaken => FallbackCalls = <<>> /\ stats = <<>>

\* C5, amended: the fallback path is taken iff redirect-gateway for IPv4 is
\* active and no DNS dhcp-option was applied (parsed, and accepted by the
\* builder); taken with fallback enabled calls add-dns-server for 8.8.8.8 and,
\* once that is accepted, for 8.8.4.4 (a refusal of either fails the pass), and
\* raises no stats event; taken with fallback disabled raises exactly one
\* REROUTE_GW_NO_DNS event if a stats object was supplied and none otherwise,
\* and adds no address; not taken does neither.
C5_DnsFallback ==
    AfterDnsFallback =>
        /\ FallbackTaken <=> (ipv.rgv4 /\ ~DnsApplied)
        /\ (FallbackTaken /\ o.google_dns_fallback) =>
              /\ Len(FallbackCalls) \in 1..2
              /\ FallbackCalls[1].args = Google1
              /\ FallbackCalls[1].ret <=> Len(FallbackCalls) = 2
              /\ Len(FallbackCalls) = 2 => FallbackCalls[2].args = Google2
              /\ pc = "failed" <=> \E k \in DOMAIN FallbackCalls : ~FallbackCalls[k].ret
              /\ stats = <<>>
        /\ (FallbackTaken /\ ~o.google_dns_fallback) =>
              /\ FallbackCalls = <<>>
              /\ stats = IF o.stats THEN <<"REROUTE_GW_NO_DNS">> ELSE <<>>
              /\ pc # "failed"
        /\ ~FallbackTaken => FallbackCalls = <<>> /\ stats = <<>> /\ pc # "failed"

\* a DNS dhcp-option was in the list, none was applied, and both fallback
\* addresses were added
C5_Witness ==
    /\ pc = "set_remote_address" /\ FallbackTaken /\ o.google_dns_fallback
    /\ DnsSeen /\ Len(FallbackCalls) = 2

\* the set-proxy calls of kind type made by the pass, and the well-formed
\* directives of that kind with a legal port
ProxyCalls(fn) == SelectSeq(log, LAMBDA c : c.fn = fn)
ValidProxy(type) ==
    {k \in DOMAIN dopt : dopt[k].type = type /\ dopt[k].size = 4 /\ dopt[k].port.valid}
LastOf(S) == CHOOSE k \in S : \A j \in S : j <= k

C6_Kind(type, fn) ==
    LET calls == ProxyCalls(fn)
        valid == ValidProxy(type)
    IN  /\ Len(calls) <= 1
        /\ valid = {} => calls = <<>>
        /\ calls # <<>> =>
              /\ valid # {}
              /\ calls[1].args = <<dopt[LastOf(valid)].strs[1], dopt[LastOf(valid)].port.v>>
              /\ calls[1].at = "add_dhcp_options_loop"

\* C6 as stated: a PROXY_HTTP (PROXY_HTTPS) dhcp-option with an illegal port
\* contributes nothing to the builder: set-proxy-http (-https) is called at
\* most once, after the loop, with host and port of the last such directive
\* with a legal port, and not at all when there is none.
C6_AsStated ==
    pc = "set_block_ipv6" =>
        /\ C6_Kind("PROXY_HTTP", "tun_builder_set_proxy_http")
        /\ C6_Kind("PROXY_HTTPS", "tun_builder_set_proxy_https")

\* the call sites C7 names, outside remote bypass and the emulator
C7_Site(c) ==
    \/ c.fn = "tun_builder_add_address"
    \/ /\ c.fn \in {"tun_builder_add_route", "tun_builder_exclude_route"}
       /\ c.at \in {"add_routes_v4_loop", "add_routes_v6_loop"}
    \/ c.fn = "tun_builder_reroute_gw"
    \/ c.fn \in {"tun_builder_add_dns_server", "tun_builder_add_wins_server",
                 "tun_builder_add_search_domain", "tun_builder_add_proxy_bypass",
                 "tun_builder_set_proxy_http", "tun_builder_set_proxy_https",
                 "tun_builder_set_proxy_auto_config_url"}

\* C7 as stated: a failure return at any of these call sites ends the pass
\* with a typed error, and no builder call follows it.
C7_AsStated ==
    \A k \in DOMAIN log :
        (C7_Site(log[k]) /\ ~log[k].ret) =>
            k = Len(log) /\ pc = "failed" /\ error.type # "none"

\* C8 as stated: set-mtu is called only with a non-zero MTU and
\* set-session-name only with a non-empty name, and a failure return from
\* set-block-ipv6, set-remote-address, set-mtu or set-session-name fails the
\* pass with tun_prop_error.
C8_AsStated ==
    \A k \in DOMAIN log :
        /\ log[k].fn = "tun_builder_set_mtu" => log[k].args[1] # 0
        /\ log[k].fn = "tun_builder_set_session_name" => log[k].args[1] # ""
        /\ (/\ log[k].fn \in {"tun_builder_set_block_ipv6", "tun_builder_set_remote_address",
                              "tun_builder_set_mtu", "tun_builder_set_session_name"}
            /\ ~log[k].ret) =>
              pc = "failed" /\ error.type = "tun_prop_error"

\* the width of an address as its number of octets tells it
HostPrefix(a) == 8 * Len(a.w)

\* C9: with an emulator the builder's exclude-route is never called; remote
\* bypass excludes each cached address other than the server's, in order, as
\* a host route (prefix 32 or 128) and never the server's address, and each
\* well-formed net_gateway route directive is excluded once; an exclusion is
\* one emulator record when there is an emulator and one exclude-route call
\* when there is none.
C9_Exclusions ==
    /\ eer.present => \A k \in DOMAIN log : log[k].fn # "tun_builder_exclude_route"
    /\ pc = "remote_bypass_loop" =>
          LET others == SelectSeq(SubSeq(dopt, 1, i - 1), LAMBDA a : a # server_addr)
              calls == StageCalls(pc)
              recs == StageRecs(pc)
          IN  IF eer.present
              THEN /\ calls = <<>>
                   /\ Len(recs) = Len(others)
                   /\ \A k \in DOMAIN recs :
                         /\ ~recs[k].add /\ recs[k].addr = others[k]
                         /\ recs[k].prefix = HostPrefix(others[k])
              ELSE /\ recs = <<>>
                   /\ Len(calls) = Len(others)
                   /\ \A k \in DOMAIN calls :
                         /\ calls[k].fn = "tun_builder_exclude_route"
                         /\ calls[k].args = <<others[k].w, HostPrefix(others[k]),
                                              others[k].ver = 6>>
    /\ pc \in {"add_routes_v4_loop", "add_routes_v6_loop"} =>
          LET fam == IF pc = "add_routes_v4_loop" THEN 4 ELSE 6
              ng == SelectSeq(SubSeq(dopt, 1, i - 1),
                              LAMBDA d : WellFormedRoute(d, fam) /\ d.target = "net_gateway")
              calls == SelectSeq(StageCalls(pc),
                                 LAMBDA c : c.fn = "tun_builder_exclude_route")
              recs == SelectSeq(StageRecs(pc), LAMBDA r : ~r.add)
          IN  IF eer.present
              THEN /\ calls = <<>>
                   /\ Len(recs) = Len(ng)
                   /\ \A k \in DOMAIN recs :
                         /\ recs[k].addr = ng[k].a1.a
                         /\ recs[k].prefix = RoutePrefix(ng[k], fam)
              ELSE /\ recs = <<>>
                   /\ Len(calls) = Len(ng)
                   /\ \A k \in DOMAIN calls :
                         calls[k].args = <<ng[k].a1.a.w, RoutePrefix(ng[k], fam), fam = 6>>

\* with an emulator, the server's own address and another cached address
\* were visited, and only the other one was recorded
C9_Witness ==
    /\ eer.present /\ pc = "remote_bypass_loop" /\ i = 3
    /\ \E k \in 1..2 : dopt[k] = server_addr
    /\ \E k \in 1..2 : dopt[k] # server_addr
    /\ Len(eer.routes) = 1 /\ ~eer.routes[1].add /\ eer.routes[1].prefix = 32

\* the stage of a builder call, by the builder method called
StageOf(c) ==
    IF c.fn = "tun_builder_add_address" THEN 1
    ELSE IF c.fn \in {"tun_builder_add_route", "tun_builder_exclude_route"} THEN 2
    ELSE IF c.fn = "tun_builder_reroute_gw" THEN 3
    ELSE IF c.fn = "tun_builder_set_block_ipv6" THEN 5
    ELSE IF c.fn = "tun_builder_set_remote_address" THEN 7
    ELSE IF c.fn = "tun_builder_set_mtu" THEN 8
    ELSE IF c.fn = "tun_builder_set_session_name" THEN 9
    ELSE 4

\* the same, the fallback add-dns-server calls placed after set-block-ipv6
StageOfSite(c) ==
    IF c.fn = "tun_builder_add_dns_server" /\ c.at = "dns_fallback" THEN 6 ELSE StageOf(c)

RerouteGwCalls == {k \in DOMAIN log : log[k].fn = "tun_builder_reroute_gw"}

\* C10 as stated: the builder calls occur in the order add-address; add-route
\* and exclude-route; the single set-reroute-gateway; the DHCP-option calls,
\* the fallback add-dns-server calls among them; set-block-ipv6;
\* set-remote-address; set-mtu; set-session-name.
C10_AsStated ==
    /\ \A j, k \in DOMAIN log : j < k => StageOf(log[j]) <= StageOf(log[k])
    /\ Cardinality(RerouteGwCalls) <= 1

\* C10, amended: the builder calls occur in the order add-address; add-route
\* and exclude-route; the single set-reroute-gateway; the calls made for the
\* dhcp-option directives; set-block-ipv6; the fallback add-dns-server calls;
\* set-remote-address; set-mtu; set-session-name.
C10_StageOrder ==
    /\ \A j, k \in DOMAIN log : j < k => StageOfSite(log[j]) <= StageOfSite(log[k])
    /\ Cardinality(RerouteGwCalls) <= 1
    /\ pc \notin {"tun_ifconfig", "tun_ifconfig_ipv6", "ip_ver_flags", "remote_bypass",
                  "remote_bypass_loop", "add_routes_v4", "add_routes_v4_loop",
                  "add_routes_v6", "add_routes_v6_loop", "emulate", "reroute_gw",
                  "failed"}
          => Cardinality(RerouteGwCalls) = 1

\* a pass that added the fallback addresses and set the MTU has returned
C10_Witness ==
    /\ pc = "done"
    /\ \E k \in DOMAIN log : log[k].at = "dns_fallback"
    /\ \E k \in DOMAIN log : log[k].fn = "tun_builder_set_mtu"

\* the add-address calls of family fam (4 or 6) the builder accepted
AddAddressOk(fam) ==
    SelectSeq(log, LAMBDA c : /\ c.fn = "tun_builder_add_address"
                              /\ c.args[4] = (fam = 6)
                              /\ c.ret)

\* the State's address field of family fam is written exactly when the
\* builder accepted an add-address call of that family, and it then holds the
\* local address of that call
C11_Field(fam, field) ==
    LET ok == AddAddressOk(fam)
    IN  /\ field # NoAddr <=> ok # <<>>
        /\ ok # <<>> => Len(ok) = 1 /\ field.ver = fam /\ field.w = ok[1].args[1]

\* C11: in every state of a pass, failed passes included, the State's V4
\* (V6) address is written iff the builder's add-address call for that family
\* returned success, and it is then the local address passed in that call; a
\* pass that fails before or in a family's add-address call leaves that field
\* as it was, and the V4 field written earlier in such a pass stays written.
C11_StateWrittenOnSuccess ==
    /\ C11_Field(4, state.vpn_ip4_addr)
    /\ C11_Field(6, state.vpn_ip6_addr)
    /\ \A k \in DOMAIN log :
          (log[k].fn = "tun_builder_add_address" /\ ~log[k].ret) => pc = "failed"

\* the V4 address was accepted and written, then the V6 add-address call was
\* refused: the pass has failed, V4 stays written, V6 is not written
C11_Witness ==
    /\ pc = "failed"
    /\ state.vpn_ip4_addr = L1 /\ state.vpn_ip6_addr = NoAddr
    /\ Len(log) = 2 /\ log[1].ret /\ ~log[2].ret /\ log[2].args[4]

\* two outcomes of a step agree in everything but the lines logged
SameButLines(a, b) == [a EXCEPT !.lines = <<>>] = [b EXCEPT !.lines = <<>>]

\* the exceptions the try block of the loop the pass is in can end with, over
\* every answer of the builder
TryThrows ==
    IF pc = "remote_bypass_loop"
    THEN {add_remote_bypass_route(dopt[i], server_addr, eer, ret, pc).throws :
             ret \in BOOLEAN}
    ELSE IF pc = "add_routes_v4_loop"
    THEN {add_route(dopt[i], 4, ipv.rgv4, eer, ret, pc).throws : ret \in BOOLEAN}
    ELSE IF pc = "add_routes_v6_loop"
    THEN {add_route(dopt[i], 6, ipv.rgv6, eer, ret, pc).throws : ret \in BOOLEAN}
    ELSE {dhcp_option(dopt[i], px, f, pc).throws : f \in 0..(Len(dopt[i].strs) + 1)}

====
